---------------------------- MODULE Spec2Model ----------------------------
(***************************************************************************)
(* Model of src/mycode.py: the OneDrive edition of the course analysis     *)
(* dashboard.  Two parts:                                                  *)
(*   - the data pipeline (process_dataframe, get_grade_distribution,       *)
(*     common_ids, the comparison merge) as operators over small tables;   *)
(*   - the Streamlit session: one action per script run, the run being     *)
(*     triggered by one user event, over st.session_state.                 *)
(* Text is a sequence of one-character strings, so that strip, startswith, *)
(* lower, endswith and the two regular expressions are computed.           *)
(***************************************************************************)
EXTENDS Integers, Sequences, FiniteSets, TLC

\* ------------------------------------------------------------------ bounds
MaxCellLen == 4      \* longest column-D text enumerated character by character
MaxRows == 2         \* rows per table in the identifier / merge inputs
MaxGradeRows == 3    \* rows per table in the grade-distribution inputs

\* ------------------------------------------------------------------- text
Digits == <<"0", "1", "2", "3", "4", "5", "6", "7", "8", "9">>

IsDigit(c) == \E i \in 1..Len(Digits) : Digits[i] = c

DigitVal(c) == (CHOOSE i \in 1..Len(Digits) : Digits[i] = c) - 1

UpperLetters == {"A", "C", "D", "F", "H", "I", "L", "N", "P", "R", "S", "T", "V", "X", "Y"}

IsUpper(c) == c \in UpperLetters

IsSpace(c) == c \in {" ", "\t", "\n"}

\* str.lower() on the characters the model uses
LowerChar(c) ==
  CASE c = "A" -> "a" [] c = "C" -> "c" [] c = "D" -> "d" [] c = "F" -> "f"
    [] c = "H" -> "h" [] c = "I" -> "i" [] c = "L" -> "l" [] c = "N" -> "n"
    [] c = "P" -> "p" [] c = "R" -> "r" [] c = "S" -> "s" [] c = "T" -> "t"
    [] c = "V" -> "v" [] c = "X" -> "x" [] c = "Y" -> "y"
    [] OTHER -> c

Lower(s) == [i \in 1..Len(s) |-> LowerChar(s[i])]

StartsWith(s, p) == Len(s) >= Len(p) /\ SubSeq(s, 1, Len(p)) = p

EndsWith(s, p) == Len(s) >= Len(p) /\ SubSeq(s, Len(s) - Len(p) + 1, Len(s)) = p

RECURSIVE LStrip(_)
LStrip(s) == IF s # <<>> /\ IsSpace(Head(s)) THEN LStrip(Tail(s)) ELSE s

RECURSIVE RStrip(_)
RStrip(s) ==
  IF s # <<>> /\ IsSpace(s[Len(s)]) THEN RStrip(SubSeq(s, 1, Len(s) - 1)) ELSE s

\* str.strip()
Strip(s) == RStrip(LStrip(s))

\* ------------------------------------------------------------------ cells
\* A DataFrame cell: text, an integer, a float produced by astype(float),
\* or a missing value (NaN).  Unused fields keep a default.
StrCell(s) == [t |-> "str", s |-> s, n |-> 0]
IntCell(n) == [t |-> "int", s |-> <<>>, n |-> n]
FloatCell(n) == [t |-> "float", s |-> <<>>, n |-> n]
NaN == [t |-> "nan", s |-> <<>>, n |-> 0]

RECURSIVE IntToStr(_)
IntToStr(n) ==
  IF n < 10 THEN <<Digits[n + 1]>>
  ELSE Append(IntToStr(n \div 10), Digits[(n % 10) + 1])

\* str(cell), as astype(str) and str() give it
StrOf(c) ==
  CASE c.t = "str" -> c.s
    [] c.t = "int" -> IntToStr(c.n)
    [] c.t = "float" -> IntToStr(c.n) \o <<".", "0">>
    [] OTHER -> <<"n", "a", "n">>

RECURSIVE DigitsToNum(_)
DigitsToNum(d) ==
  IF d = <<>> THEN 0
  ELSE 10 * DigitsToNum(SubSeq(d, 1, Len(d) - 1)) + DigitVal(d[Len(d)])

\* length of the run of characters satisfying a class from position i on
RECURSIVE DigitRun(_, _)
DigitRun(s, i) == IF i <= Len(s) /\ IsDigit(s[i]) THEN 1 + DigitRun(s, i + 1) ELSE 0

RECURSIVE UpperRun(_, _)
UpperRun(s, i) == IF i <= Len(s) /\ IsUpper(s[i]) THEN 1 + UpperRun(s, i + 1) ELSE 0

\* mutant: the pattern (\d) in place of (\d+)
ExtractMark_OneDigit(s) ==
  LET hits == {i \in 1..Len(s) : IsDigit(s[i])}
  IN IF hits = {} THEN NaN
     ELSE FloatCell(DigitVal(s[CHOOSE j \in hits : \A k \in hits : j <= k]))

\* .str.extract('(\d+)').astype(float): re.search, leftmost greedy match
ExtractMark(s) ==
  LET hits == {i \in 1..Len(s) : IsDigit(s[i])}
  IN IF hits = {} THEN NaN
     ELSE LET i == CHOOSE j \in hits : \A k \in hits : j <= k
          IN FloatCell(DigitsToNum(SubSeq(s, i, i + DigitRun(s, i) - 1)))

\* .str.extract('([A-Z]{2,3})')[0]: leftmost position with two capitals,
\* greedy up to three
ExtractGrade(s) ==
  LET hits == {i \in 1..Len(s) : UpperRun(s, i) >= 2}
  IN IF hits = {} THEN NaN
     ELSE LET i == CHOOSE j \in hits : \A k \in hits : j <= k
              n == IF UpperRun(s, i) >= 3 THEN 3 ELSE 2
          IN StrCell(SubSeq(s, i, i + n - 1))

\* -------------------------------------------------------------- DataFrame
\* A DataFrame is [columns |-> names, rows |-> rows], a row being one cell
\* per column.
SID == <<"S", "t", "u", "d", "e", "n", "t", " ", "I", "D">>
FINAL_MARK == <<"F", "i", "n", "a", "l", "_", "M", "a", "r", "k">>
GRADE == <<"G", "r", "a", "d", "e">>
ACTL == <<"A", "C", "T", "L">>

HasColumn(df, name) == \E i \in 1..Len(df.columns) : df.columns[i] = name

ColumnIndex(df, name) ==
  CHOOSE i \in 1..Len(df.columns) :
    df.columns[i] = name /\ \A j \in 1..Len(df.columns) : df.columns[j] = name => i <= j

\* df[name]
Col(df, name) == [r \in 1..Len(df.rows) |-> df.rows[r][ColumnIndex(df, name)]]

\* df.iloc[:, k] (k counted from 1 here)
ILocCol(df, k) == [r \in 1..Len(df.rows) |-> df.rows[r][k]]

\* df[name] = vals: overwrite the column of that name, or append a new one
SetColumn(df, name, vals) ==
  IF HasColumn(df, name)
  THEN [df EXCEPT !.rows =
          [r \in 1..Len(df.rows) |-> [df.rows[r] EXCEPT ![ColumnIndex(df, name)] = vals[r]]]]
  ELSE [columns |-> Append(df.columns, name),
        rows |-> [r \in 1..Len(df.rows) |-> Append(df.rows[r], vals[r])]]

\* mutant: the column names are trimmed before 'Student ID' is looked up
IsHeaderInfoRow_Trimmed(df) ==
  /\ \E i \in 1..Len(df.columns) : Strip(df.columns[i]) = SID
  /\ Len(df.rows) > 0
  /\ StartsWith(StrOf(df.rows[1][1]), ACTL)

\* the condition of line 129, on the column names as read (not yet trimmed)
IsHeaderInfoRow(df) ==
  /\ HasColumn(df, SID)
  /\ Len(df.rows) > 0
  /\ StartsWith(StrOf(df.rows[1][1]), ACTL)

SkipHeaderRow(df) == IF IsHeaderInfoRow(df) THEN [df EXCEPT !.rows = Tail(df.rows)] ELSE df

CleanColumnNames(df) == [df EXCEPT !.columns = [i \in 1..Len(df.columns) |-> Strip(df.columns[i])]]

\* process_dataframe raises IndexError at df.iloc[:, 3] on fewer than 4 columns
ProcessRaises(df) == Len(df.columns) < 4

\* lines 136-138: column D, read as text, gives Final_Mark and Grade
SetMarkAndGrade(df) ==
  SetColumn(
    SetColumn(df, FINAL_MARK,
              [r \in 1..Len(df.rows) |-> ExtractMark(StrOf(ILocCol(df, 4)[r]))]),
    GRADE,
    [r \in 1..Len(df.rows) |-> ExtractGrade(StrOf(ILocCol(df, 4)[r]))])

\* mutant: the identifier is not trimmed
SetStudentId_NoStrip(df) ==
  SetColumn(df, SID, [r \in 1..Len(df.rows) |-> StrCell(StrOf(ILocCol(df, 1)[r]))])

\* line 141: the first column, as trimmed text, becomes Student ID
SetStudentId(df) ==
  SetColumn(df, SID, [r \in 1..Len(df.rows) |-> StrCell(Strip(StrOf(ILocCol(df, 1)[r])))])

process_dataframe(df) ==
  SetStudentId(SetMarkAndGrade(CleanColumnNames(SkipHeaderRow(df))))

\* ---------------------------------------------------- grade distribution
grade_order == <<StrCell(<<"H", "D">>), StrCell(<<"D", "N">>), StrCell(<<"C", "R">>),
                 StrCell(<<"P", "S">>), StrCell(<<"F", "L">>)>>

\* Series.value_counts().get(v, 0): occurrences of v, computed by a scan
RECURSIVE CountOf(_, _)
CountOf(col, v) ==
  IF col = <<>> THEN 0
  ELSE (IF Head(col) = v THEN 1 ELSE 0) + CountOf(Tail(col), v)

RECURSIVE CountNotNa(_)
CountNotNa(col) ==
  IF col = <<>> THEN 0
  ELSE (IF Head(col).t # "nan" THEN 1 ELSE 0) + CountNotNa(Tail(col))

RECURSIVE Gcd(_, _)
Gcd(a, b) == IF b = 0 THEN a ELSE Gcd(b, a % b)

\* an exact fraction in lowest terms, standing for the Python float
Rat(a, b) == LET g == Gcd(a, b) IN [num |-> a \div g, den |-> b \div g]

\* mutant: the total counts the records without a grade too
GradeTotal_AllRows(df) == Len(df.rows)

\* len(df[df['Grade'].notna()])
GradeTotal(df) == CountNotNa(Col(df, GRADE))

get_grade_distribution(df) ==
  LET total == GradeTotal(df)
  IN [k \in 1..Len(grade_order) |->
        LET count == CountOf(Col(df, GRADE), grade_order[k])
        IN [grade |-> grade_order[k],
            count |-> count,
            percentage |-> IF total > 0 THEN Rat(count * 100, total) ELSE Rat(0, 1)]]

\* ------------------------------------------------------------- comparison
SeqRange(s) == {s[i] : i \in 1..Len(s)}

\* set(df1['Student ID']) & set(df2['Student ID'])
CommonIds(df1, df2) == SeqRange(Col(df1, SID)) \cap SeqRange(Col(df2, SID))

RECURSIVE SelectRows(_, _)
SelectRows(rows, ids) ==
  IF rows = <<>> THEN <<>>
  ELSE (IF Head(rows).id \in ids THEN <<Head(rows)>> ELSE <<>>) \o SelectRows(Tail(rows), ids)

\* df[df['Student ID'].isin(ids)][['Student ID', 'Final_Mark']]
CommonFrame(df, ids) ==
  SelectRows([r \in 1..Len(df.rows) |->
                [id |-> Col(df, SID)[r], mark |-> Col(df, FINAL_MARK)[r]]], ids)

\* mutant: a left row is paired with its first match only
RECURSIVE MatchRight_First(_, _)
MatchRight_First(l, right) ==
  IF right = <<>> THEN <<>>
  ELSE IF Head(right).id = l.id
       THEN <<[id |-> l.id, m1 |-> l.mark, m2 |-> Head(right).mark]>>
       ELSE MatchRight_First(l, Tail(right))

RECURSIVE MatchRight(_, _)
MatchRight(l, right) ==
  IF right = <<>> THEN <<>>
  ELSE (IF Head(right).id = l.id
        THEN <<[id |-> l.id, m1 |-> l.mark, m2 |-> Head(right).mark]>> ELSE <<>>)
       \o MatchRight(l, Tail(right))

\* left.merge(right, on='Student ID'): the inner join, every pair of rows
\* with equal keys, in the order of the left rows
RECURSIVE Merge(_, _)
Merge(left, right) ==
  IF left = <<>> THEN <<>> ELSE MatchRight(Head(left), right) \o Merge(Tail(left), right)

\* the Difference column (File2 - File1, NaN when either is missing)
Difference(row) ==
  IF row.m1.t = "nan" \/ row.m2.t = "nan" THEN NaN ELSE FloatCell(row.m2.n - row.m1.n)

Change(d) ==
  IF d.t # "nan" /\ d.n > 5 THEN "Higher"
  ELSE IF d.t # "nan" /\ d.n < -5 THEN "Lower" ELSE "Similar"

WithDifference(rows) ==
  [r \in 1..Len(rows) |->
     [id |-> rows[r].id, m1 |-> rows[r].m1, m2 |-> rows[r].m2,
      diff |-> Difference(rows[r]), change |-> Change(Difference(rows[r]))]]

\* a goes before b in sort_values('Difference', ascending=False): NaN last
Before(a, b) == a.diff.t # "nan" /\ (b.diff.t = "nan" \/ a.diff.n > b.diff.n)

RECURSIVE InsertSorted(_, _)
InsertSorted(sorted, x) ==
  IF sorted = <<>> THEN <<x>>
  ELSE IF Before(x, Head(sorted)) THEN <<x>> \o sorted
       ELSE <<Head(sorted)>> \o InsertSorted(Tail(sorted), x)

RECURSIVE SortByDifference(_)
SortByDifference(rows) ==
  IF rows = <<>> THEN <<>>
  ELSE InsertSorted(SortByDifference(SubSeq(rows, 1, Len(rows) - 1)), rows[Len(rows)])

\* comparison_df of lines 496-505, for the default column choice (column D)
ComparisonOf(df1, df2, ids) ==
  SortByDifference(WithDifference(Merge(CommonFrame(df1, ids), CommonFrame(df2, ids))))

ComparisonTable(df1, df2) == ComparisonOf(df1, df2, CommonIds(df1, df2))

\* df[df['Student ID'].isin(ids)]
FilterCommon(df, ids) ==
  LET keep == {r \in 1..Len(df.rows) : Col(df, SID)[r] \in ids}
      F[n \in 0..Len(df.rows)] ==
        IF n = 0 THEN <<>>
        ELSE IF n \in keep THEN Append(F[n - 1], df.rows[n]) ELSE F[n - 1]
  IN [df EXCEPT !.rows = F[Len(df.rows)]]

\* ------------------------------------------------------------ the drive
\* Text fields and names of the files on the drive.
ColB == <<"B">>
ColC == <<"C">>
ColD == <<"F", "i", "n", "a", "l", " ">>
ColId == <<"I", "D">>

\* File bytes are a sequence of lines, a line a sequence of text fields;
\* <<>> is the empty byte string, << <<>> >> a file holding a blank line.
BytesA ==
  << <<SID, ColB, ColC, ColD>>,
     <<<<"A", "C", "T", "L", "1">>, <<>>, <<>>, <<>>>>,
     <<<<"1", "1">>, <<>>, <<>>, <<"7", "8", " ", "D", "N">>>>,
     <<<<"1", "2">>, <<>>, <<>>, <<"5", "5", " ", "P", "S">>>> >>

BytesB ==
  << <<<<" ">> \o SID, ColB, ColC, ColD>>,
     <<<<"1", "1">>, <<>>, <<>>, <<"8", "5", " ", "H", "D">>>>,
     <<<<"1", "3">>, <<>>, <<>>, <<"4", "0", " ", "F", "L">>>> >>

\* a table of three columns: process_dataframe raises on it
BytesC ==
  << <<SID, ColB, ColC>>,
     <<<<"1", "1">>, <<>>, <<"7">>>> >>

BytesBlank == << <<>> >>

BytesEmpty == <<>>

NameA == <<"a", ".", "c", "s", "v">>
NameB == <<"D", ".", "C", "S", "V">>
NameNotes == <<"n", ".", "t", "x", "t">>
NameC == <<"c", ".", "c", "s", "v">>
NameBlank == <<"d", ".", "c", "s", "v">>
NameEmpty == <<"e", ".", "c", "s", "v">>
NameReadme == <<"r", ".", "t", "x", "t">>
NameMarks == <<"M", "a", "r", "k", "s">>
NameEmptyDir == <<"E", "m", "p", "t", "y">>

None == "None"

File(name, id) == [name |-> name, id |-> id, folder |-> FALSE]
Folder(name, id) == [name |-> name, id |-> id, folder |-> TRUE]

\* the children of each drive item, as Graph's .../children returns them
DriveChildren(folder_id) ==
  CASE folder_id = None ->
         <<Folder(NameMarks, "fM"), File(NameA, "a"), File(NameNotes, "n"),
           File(NameB, "b"), Folder(NameEmptyDir, "fE")>>
    [] folder_id = "fM" ->
         <<File(NameC, "c"), File(NameBlank, "d"), File(NameEmpty, "e")>>
    [] OTHER -> <<File(NameReadme, "r")>>

DriveBytes(file_id) ==
  CASE file_id = "a" -> BytesA
    [] file_id = "b" -> BytesB
    [] file_id = "c" -> BytesC
    [] file_id = "d" -> BytesBlank
    [] OTHER -> BytesEmpty

RECURSIVE SelectSeq2(_, _)
SelectSeq2(items, keep) ==
  IF items = <<>> THEN <<>>
  ELSE (IF Head(items) \in keep THEN <<Head(items)>> ELSE <<>>) \o SelectSeq2(Tail(items), keep)

CSV_EXT == <<".", "c", "s", "v">>

\* item['name'].lower().endswith('.csv')
IsCsvName(name) == EndsWith(Lower(name), CSV_EXT)

\* list_onedrive_folders: the items with a 'folder' key; [] when the
\* request does not return 200
list_onedrive_folders(ok, folder_id) ==
  IF ok
  THEN SelectSeq2(DriveChildren(folder_id),
                  {it \in SeqRange(DriveChildren(folder_id)) : it.folder})
  ELSE <<>>

\* list_csv_files: the items whose lower-cased name ends in .csv; [] when
\* the request does not return 200.  (Folder names on this drive are plain
\* strings that are not .csv names.)
list_csv_files(ok, folder_id) ==
  IF ok
  THEN SelectSeq2(DriveChildren(folder_id),
                  {it \in SeqRange(DriveChildren(folder_id)) : ~it.folder /\ IsCsvName(it.name)})
  ELSE <<>>

\* download_file_content: response.content, or None (here <<>>, as falsy as
\* the empty byte string) when the request does not return 200
download_file_content(ok, file_id) == IF ok THEN DriveBytes(file_id) ELSE <<>>

\* ----------------------------------------------------------------- read_csv
IsAllDigits(f) == f # <<>> /\ \A i \in 1..Len(f) : IsDigit(f[i])

\* the tokenizer's integer conversion skips blanks around the digits
IsIntegerField(f) == IsAllDigits(Strip(f))

NonBlank(bytes) == SelectSeq2(bytes, {l \in SeqRange(bytes) : l # <<>>})

\* pd.read_csv raises EmptyDataError when there is no line to take the
\* column names from
ReadCsvRaises(bytes) == NonBlank(bytes) = <<>>

FieldAt(line, c) == IF c <= Len(line) THEN line[c] ELSE <<>>

\* pd.read_csv: the first line names the columns, short lines are padded
\* with missing values, an empty field is missing, a column of digit strings
\* is read as integers (as floats when a value is missing), anything else as
\* text.  (No file of the model has a line longer than its first line, a
\* repeated column name, or one of the other spellings of a missing value.)
read_csv(bytes) ==
  LET lines == NonBlank(bytes)
      header == Head(lines)
      body == Tail(lines)
      fields(c) == {FieldAt(body[r], c) : r \in 1..Len(body)}
      numeric(c) == \A f \in fields(c) : f = <<>> \/ IsIntegerField(f)
      cell(r, c) ==
        LET f == FieldAt(body[r], c)
        IN IF f = <<>> THEN NaN
           ELSE IF ~numeric(c) THEN StrCell(f)
           ELSE IF <<>> \in fields(c) THEN FloatCell(DigitsToNum(Strip(f)))
           ELSE IntCell(DigitsToNum(Strip(f)))
  IN [columns |-> header,
      rows |-> [r \in 1..Len(body) |-> [c \in 1..Len(header) |-> cell(r, c)]]]

\* ------------------------------------------------------------ the session
VARIABLES
  access_token,        \* st.session_state.access_token (None or the token)
  user_info,           \* st.session_state.user_info
  selected_folder_id,  \* st.session_state.selected_folder_id
  csv_files,           \* st.session_state.csv_files
  file1_df, file2_df,  \* st.session_state.file1_df / file2_df (NoDf: not set)
  file1_name, file2_name,
  files_loaded,        \* FALSE also stands for "key not in session_state"
  query_code,          \* 'code' in st.query_params
  folder_select, file1_select, file2_select,  \* widget values, by key
  filter_option,       \* the radio: TRUE is "ONLY Students in BOTH Files"
  event,               \* what triggered the last script run
  requests,            \* HTTP requests the last run made
  rendered,            \* what the last run put on the page
  run_end,             \* how it ended: rerun, stop, crash or done
  folder_options,      \* names offered by the folder selectbox in the last run
  df1_orig, df2_orig, common_ids, dist1, dist2, comparison_df,
                       \* script variables of the analysis section
  analysis_error,      \* the exception raised inside the try of the last run
  pc                   \* "session", or the stage of the data pipeline runs

vars ==
  <<access_token, user_info, selected_folder_id, csv_files, file1_df, file2_df,
    file1_name, file2_name, files_loaded, query_code, folder_select, file1_select,
    file2_select, filter_option, event, requests, rendered, run_end, folder_options,
    df1_orig, df2_orig, common_ids, dist1, dist2, comparison_df, analysis_error, pc>>

NoDf == [columns |-> <<>>, rows |-> <<>>]
Unset == <<>>
Root == <<"R", "o", "o", "t">>

\* the state as one record, so that the script's sections compose
Current ==
  [access_token |-> access_token, user_info |-> user_info,
   selected_folder_id |-> selected_folder_id, csv_files |-> csv_files,
   file1_df |-> file1_df, file2_df |-> file2_df,
   file1_name |-> file1_name, file2_name |-> file2_name,
   files_loaded |-> files_loaded, query_code |-> query_code,
   folder_select |-> folder_select, file1_select |-> file1_select,
   file2_select |-> file2_select, filter_option |-> filter_option,
   requests |-> requests, rendered |-> rendered, run_end |-> run_end,
   folder_options |-> folder_options,
   df1_orig |-> df1_orig, df2_orig |-> df2_orig, common_ids |-> common_ids,
   dist1 |-> dist1, dist2 |-> dist2, comparison_df |-> comparison_df,
   analysis_error |-> analysis_error]

Ev(kind) == [kind |-> kind, folder |-> Unset, file |-> <<>>]

\* outcomes of the requests of one run: TRUE is "status 200" (for the
\* token exchange, "the result holds an access_token")
Outcomes ==
  [token_ok : BOOLEAN, me_ok : BOOLEAN, folders_ok : BOOLEAN, files_ok : BOOLEAN,
   dl1_ok : BOOLEAN, dl2_ok : BOOLEAN]

\* A run starts with nothing requested or rendered and fresh script
\* variables; the widget the user touched already holds its new value.
Begin(s, ev) ==
  [s EXCEPT
     !.requests = {}, !.rendered = {}, !.run_end = "running", !.folder_options = <<>>,
     !.df1_orig = NoDf, !.df2_orig = NoDf, !.common_ids = {},
     !.dist1 = <<>>, !.dist2 = <<>>, !.comparison_df = <<>>,
     !.analysis_error = None,
     !.query_code = IF ev.kind = "callback" THEN TRUE ELSE @,
     !.folder_select = IF ev.kind = "select_folder" THEN ev.folder ELSE @,
     !.file1_select = IF ev.kind = "select_file1" THEN ev.file ELSE @,
     !.file2_select = IF ev.kind = "select_file2" THEN ev.file ELSE @,
     !.filter_option = IF ev.kind = "toggle_filter" THEN ~@ ELSE @]

\* lines 176-189: exchange the authorization code
AuthSection(s, inp) ==
  IF s.run_end = "running" /\ s.query_code /\ s.access_token = None
  THEN IF inp.token_ok
       THEN [s EXCEPT !.access_token = "tok",
                      !.user_info = IF inp.me_ok THEN "user" ELSE None,
                      !.query_code = FALSE,
                      !.requests = @ \cup {"token", "me"},
                      !.run_end = "rerun"]
       ELSE [s EXCEPT !.requests = @ \cup {"token"},
                      !.rendered = @ \cup {"auth_failed"}]
  ELSE s

\* mutant: Disconnect also forgets the loaded files
DisconnectButton_ClearsFiles(s) ==
  [s EXCEPT !.access_token = None, !.user_info = None,
            !.selected_folder_id = None, !.csv_files = <<>>,
            !.files_loaded = FALSE,
            !.run_end = "rerun"]

\* lines 199-203: the Disconnect button's body
DisconnectButton(s) ==
  [s EXCEPT !.access_token = None, !.user_info = None,
            !.selected_folder_id = None, !.csv_files = <<>>,
            !.run_end = "rerun"]

\* lines 192-210: connection status and the two buttons
StatusSection(s, ev) ==
  IF s.run_end # "running" THEN s
  ELSE IF s.access_token # None
  THEN LET s1 == [s EXCEPT !.rendered = @ \cup {"connected", "disconnect_button"}]
       IN IF ev.kind = "disconnect" THEN DisconnectButton(s1) ELSE s1
  ELSE [s EXCEPT !.rendered =
          @ \cup {"not_connected", "connect_button"}
            \cup (IF ev.kind = "connect" THEN {"signin_link"} ELSE {})]

\* mutant: the message without st.stop()
GateSection_NoStop(s) ==
  IF s.run_end = "running" /\ s.access_token = None
  THEN [s EXCEPT !.rendered = @ \cup {"please_connect"}]
  ELSE s

\* lines 215-233: without a token the run ends at st.stop()
GateSection(s) ==
  IF s.run_end = "running" /\ s.access_token = None
  THEN [s EXCEPT !.rendered = @ \cup {"please_connect"}, !.run_end = "stop"]
  ELSE s

FolderIdOf(folders, name) ==
  IF name = Root THEN None
  ELSE (CHOOSE f \in SeqRange(folders) : f.name = name).id

\* what a selectbox returns: the value its key holds when that is one of
\* the options, else the option at the default index
SelectBox(value, options, default) ==
  IF value \in SeqRange(options) THEN value ELSE options[default]

\* lines 239-254: list the folders, pick one, refresh csv_files when the
\* picked id differs from the remembered one
BrowseSection(s, inp) ==
  IF s.run_end # "running" THEN s
  ELSE LET folders == list_onedrive_folders(inp.folders_ok, None)
           options == <<Root>> \o [i \in 1..Len(folders) |-> folders[i].name]
           selected_folder_name == SelectBox(s.folder_select, options, 1)
           folder_id == FolderIdOf(folders, selected_folder_name)
           s1 == [s EXCEPT !.requests = @ \cup {"folders"},
                           !.rendered = @ \cup {"folder_select"},
                           !.folder_options = options,
                           !.folder_select = selected_folder_name]
       IN IF folder_id # s.selected_folder_id
          THEN [s1 EXCEPT !.selected_folder_id = folder_id,
                          !.csv_files = list_csv_files(inp.files_ok, folder_id),
                          !.requests = @ \cup {"files"}]
          ELSE s1

FileNames(files) == [i \in 1..Len(files) |-> files[i].name]

FileIdOf(files, name) == (CHOOSE f \in SeqRange(files) : f.name = name).id

\* lines 270-284: the Load and Analyze Files button's body; file1 and file2
\* are the names the two selectboxes returned
LoadButton(s, file1, file2, inp) ==
  LET file1_content == download_file_content(inp.dl1_ok, FileIdOf(s.csv_files, file1))
      file2_content == download_file_content(inp.dl2_ok, FileIdOf(s.csv_files, file2))
      s1 == [s EXCEPT !.requests = @ \cup {"download"}]
  IN IF file1_content # <<>> /\ file2_content # <<>>
     THEN IF ReadCsvRaises(file1_content)
          THEN [s1 EXCEPT !.rendered = @ \cup {"uncaught_exception"}, !.run_end = "crash"]
          ELSE IF ReadCsvRaises(file2_content)
          THEN [s1 EXCEPT !.file1_df = read_csv(file1_content),
                          !.rendered = @ \cup {"uncaught_exception"},
                          !.run_end = "crash"]
          ELSE [s1 EXCEPT !.file1_df = read_csv(file1_content),
                          !.file2_df = read_csv(file2_content),
                          !.file1_name = file1,
                          !.file2_name = file2,
                          !.files_loaded = TRUE,
                          !.rendered = @ \cup {"loaded_ok"},
                          !.run_end = "rerun"]
     ELSE [s1 EXCEPT !.rendered = @ \cup {"download_failed"}]

Min(a, b) == IF a < b THEN a ELSE b

\* lines 256-287: the two file selectboxes and the load button, or the
\* warning that the folder has no CSV file
FilesSection(s, ev, inp) ==
  IF s.run_end # "running" THEN s
  ELSE IF Len(s.csv_files) > 0
  THEN LET names == FileNames(s.csv_files)
           file1 == SelectBox(s.file1_select, names, 1)
           file2 == SelectBox(s.file2_select, names, Min(1, Len(names) - 1) + 1)
           s1 == [s EXCEPT !.rendered = @ \cup {"found_csv", "file_select", "load_button"},
                           !.file1_select = file1,
                           !.file2_select = file2]
       IN IF ev.kind = "load" THEN LoadButton(s1, file1, file2, inp) ELSE s1
  ELSE [s EXCEPT !.rendered = @ \cup {"no_csv_warning"}]

\* lines 332-515: what the analysis computes from the two processed tables
\* and their common identifiers
AnalyseCommon(d1, d2, ids, show_only_common) ==
  [raised |-> FALSE, df1_orig |-> d1, df2_orig |-> d2, common_ids |-> ids,
   dist1 |-> get_grade_distribution(IF show_only_common THEN FilterCommon(d1, ids) ELSE d1),
   dist2 |-> get_grade_distribution(IF show_only_common THEN FilterCommon(d2, ids) ELSE d2),
   comparison_df |->
     IF show_only_common /\ Cardinality(ids) > 0 THEN ComparisonTable(d1, d2) ELSE <<>>,
   comparison |-> show_only_common /\ Cardinality(ids) > 0]

AnalyseProcessed(d1, d2, show_only_common) ==
  AnalyseCommon(d1, d2, CommonIds(d1, d2), show_only_common)

\* lines 292-515, the body of the try: process both tables, then the
\* overview, the distributions and, for the common students, the comparison.
\* raised is TRUE when a statement of the body raises.  The tables of the
\* model have no column after D, so the two column selectboxes offer
\* column D alone and the compared column is Final_Mark.
AnalysisBody(f1, f2, show_only_common) ==
  IF ProcessRaises(f1) \/ ProcessRaises(f2)
  THEN [raised |-> TRUE, df1_orig |-> NoDf, df2_orig |-> NoDf, common_ids |-> {},
        dist1 |-> <<>>, dist2 |-> <<>>, comparison_df |-> <<>>, comparison |-> FALSE]
  ELSE AnalyseProcessed(process_dataframe(f1), process_dataframe(f2), show_only_common)

\* mutant: no except clause, the exception ends the run
ExceptBranch_Uncaught(s) ==
  [s EXCEPT !.analysis_error = "IndexError",
            !.rendered = @ \cup {"uncaught_exception"},
            !.run_end = "crash"]

\* lines 517-519: except Exception, then st.error and st.exception
ExceptBranch(s) ==
  [s EXCEPT !.analysis_error = "IndexError",
            !.rendered = @ \cup {"error_message"}]

\* the except branch, or the rendering of what the body computed
ShowAnalysis(s, a) ==
  IF a.raised
  THEN ExceptBranch(s)
  ELSE [s EXCEPT !.df1_orig = a.df1_orig, !.df2_orig = a.df2_orig,
                 !.common_ids = a.common_ids,
                 !.dist1 = a.dist1, !.dist2 = a.dist2,
                 !.comparison_df = a.comparison_df,
                 !.rendered = @ \cup {"analysis", "filter_radio"}
                                \cup (IF a.comparison THEN {"comparison"} ELSE {})]

\* lines 290-519: the analysis section with its try / except Exception
AnalysisSection(s) ==
  IF s.run_end = "running" /\ s.files_loaded
  THEN ShowAnalysis(s, AnalysisBody(s.file1_df, s.file2_df, s.filter_option))
  ELSE s

\* The end of a run: a run that reached the last line is done; a widget the
\* run did not render loses its value (unless the run crashed).
Finish(s) ==
  LET kept(w, v, unset) == IF s.run_end = "crash" \/ w \in s.rendered THEN v ELSE unset
  IN [s EXCEPT !.run_end = IF @ = "running" THEN "done" ELSE @,
               !.folder_select = kept("folder_select", @, Unset),
               !.file1_select = kept("file_select", @, <<>>),
               !.file2_select = kept("file_select", @, <<>>),
               !.filter_option = kept("filter_radio", @, FALSE)]

\* one run of the script, top to bottom
Script(s, ev, inp) ==
  Finish(AnalysisSection(FilesSection(BrowseSection(GateSection(
    StatusSection(AuthSection(Begin(s, ev), inp), ev)), inp), ev, inp)))

Becomes(s, ev, next_pc) ==
  /\ access_token' = s.access_token
  /\ user_info' = s.user_info
  /\ selected_folder_id' = s.selected_folder_id
  /\ csv_files' = s.csv_files
  /\ file1_df' = s.file1_df
  /\ file2_df' = s.file2_df
  /\ file1_name' = s.file1_name
  /\ file2_name' = s.file2_name
  /\ files_loaded' = s.files_loaded
  /\ query_code' = s.query_code
  /\ folder_select' = s.folder_select
  /\ file1_select' = s.file1_select
  /\ file2_select' = s.file2_select
  /\ filter_option' = s.filter_option
  /\ event' = ev
  /\ requests' = s.requests
  /\ rendered' = s.rendered
  /\ run_end' = s.run_end
  /\ folder_options' = s.folder_options
  /\ df1_orig' = s.df1_orig
  /\ df2_orig' = s.df2_orig
  /\ common_ids' = s.common_ids
  /\ dist1' = s.dist1
  /\ dist2' = s.dist2
  /\ comparison_df' = s.comparison_df
  /\ analysis_error' = s.analysis_error
  /\ pc' = next_pc

\* The outcomes that can matter in a run: the token exchange only happens
\* with a code and no token, the listings only with a token, the downloads
\* only when Load was pressed.  An outcome nothing reads is left at TRUE.
RelevantOutcomes(ev) ==
  LET exchange == (query_code \/ ev.kind = "callback") /\ access_token = None
  IN {inp \in Outcomes :
        /\ ~exchange => inp.token_ok /\ inp.me_ok
        /\ (exchange \/ access_token = None \/ ev.kind = "disconnect")
             => inp.folders_ok /\ inp.files_ok
        /\ ev.kind # "load" => inp.dl1_ok /\ inp.dl2_ok}

Run(ev) ==
  \E inp \in RelevantOutcomes(ev) :
    LET s == Script(Current, ev, inp) IN Becomes(s, ev, pc)

\* the user may act on what the last run rendered, once no rerun is pending
Idle == pc = "session" /\ run_end # "rerun"

\* a run nobody's widget triggered: the page load, st.rerun(), or "Rerun"
RunRerun == pc = "session" /\ Run(Ev("rerun"))

\* the browser arrives with ?code=... after the Microsoft sign-in
RunCallback == Idle /\ access_token = None /\ ~query_code /\ Run(Ev("callback"))

RunConnect == Idle /\ "connect_button" \in rendered /\ Run(Ev("connect"))

RunDisconnect == Idle /\ "disconnect_button" \in rendered /\ Run(Ev("disconnect"))

RunSelectFolder ==
  /\ Idle /\ "folder_select" \in rendered
  /\ \E name \in SeqRange(folder_options) \ {folder_select} :
       Run([Ev("select_folder") EXCEPT !.folder = name])

RunSelectFile1 ==
  /\ Idle /\ "file_select" \in rendered
  /\ \E name \in SeqRange(FileNames(csv_files)) \ {file1_select} :
       Run([Ev("select_file1") EXCEPT !.file = name])

RunSelectFile2 ==
  /\ Idle /\ "file_select" \in rendered
  /\ \E name \in SeqRange(FileNames(csv_files)) \ {file2_select} :
       Run([Ev("select_file2") EXCEPT !.file = name])

RunLoad == Idle /\ "load_button" \in rendered /\ Run(Ev("load"))

RunToggleFilter == Idle /\ "filter_radio" \in rendered /\ Run(Ev("toggle_filter"))

\* lines 34-41: a new session, its first run pending
Init ==
  /\ access_token = None
  /\ user_info = None
  /\ selected_folder_id = None
  /\ csv_files = <<>>
  /\ file1_df = NoDf /\ file2_df = NoDf
  /\ file1_name = <<>> /\ file2_name = <<>>
  /\ files_loaded = FALSE
  /\ query_code \in BOOLEAN
  /\ folder_select = Unset /\ file1_select = <<>> /\ file2_select = <<>>
  /\ filter_option = FALSE
  /\ event = Ev("open")
  /\ requests = {} /\ rendered = {}
  /\ run_end = "rerun"
  /\ folder_options = <<>>
  /\ df1_orig = NoDf /\ df2_orig = NoDf /\ common_ids = {}
  /\ dist1 = <<>> /\ dist2 = <<>> /\ comparison_df = <<>>
  /\ analysis_error = None
  /\ pc = "session"

Next ==
  \/ RunRerun
  \/ RunCallback
  \/ RunConnect
  \/ RunDisconnect
  \/ RunSelectFolder
  \/ RunSelectFile1
  \/ RunSelectFile2
  \/ RunLoad
  \/ RunToggleFilter

Spec == Init /\ [][Next]_vars

\* ------------------------------------------------- the data pipeline runs
\* A second specification for the claims about the tables: a connected
\* session whose two loaded files are drawn from bounded sets of CSV texts,
\* and one action, the analysis section applied to them.
Alphabet == {"0", "7", " ", "D", "N", "x"}

Texts(n) == UNION {[1..k -> Alphabet] : k \in 0..n}

SeqsUpTo(S, n) == UNION {[1..k -> S] : k \in 0..n}

HeaderLine(c0, c1) == <<c0, c1, ColC, ColD>>

Line(id, d) == <<id, <<>>, <<>>, d>>

Mark1 == <<"9", " ", "H", "D">>
Mark2 == <<"2", " ", "F", "L">>

\* every text of up to MaxCellLen characters in column D of file 1
MarkFiles ==
  {<< <<HeaderLine(SID, ColB), Line(<<"1">>, d)>>, BytesB, FALSE >> : d \in Texts(MaxCellLen)}

IdTexts == {<<"1">>, <<" ", "1", " ">>, <<"2">>, <<"x">>, <<>>}

IdLines(d) == {Line(id, d) : id \in IdTexts}

\* up to MaxRows students per file, identifiers repeated, padded or missing
IdFiles ==
  {<< <<HeaderLine(SID, ColB)>> \o l1, <<HeaderLine(<<" ">> \o SID, ColB)>> \o l2, f >> :
     l1 \in SeqsUpTo(IdLines(Mark1), MaxRows),
     l2 \in SeqsUpTo(IdLines(Mark2), MaxRows),
     f \in BOOLEAN}

GradeTexts ==
  {<<"H", "D">>, <<"D", "N">>, <<"C", "R">>, <<"P", "S">>, <<"F", "L">>, <<"X", "Y">>, <<>>}

\* up to MaxGradeRows students in file 1, any grade or none in column D
GradeFiles ==
  {<< <<HeaderLine(SID, ColB)>> \o [i \in 1..Len(g) |-> Line(<<Digits[i + 1]>>, g[i])],
      <<HeaderLine(SID, ColB), Line(<<"1">>, Mark2)>>, f >> :
     g \in SeqsUpTo(GradeTexts, MaxGradeRows), f \in BOOLEAN}

FirstCells ==
  {ACTL \o <<"1">>, ACTL, <<" ">> \o ACTL, <<"A", "C", "T">>, <<"1">>, <<>>}

HeaderNames == {<<SID, ColB>>, <<<<" ">> \o SID, ColB>>, <<ColId, ColB>>, <<ColId, SID>>}

\* file 1 with or without a 'Student ID' column and a first row that does
\* or does not start with ACTL
HeaderFiles ==
  {<< <<HeaderLine(h[1], h[2])>> \o l, BytesB, FALSE >> :
     h \in HeaderNames,
     l \in {<<>>} \cup {<<Line(c, <<>>)>> \o rest :
                          c \in FirstCells, rest \in {<<>>, <<Line(<<"2">>, Mark1)>>}}}

LoadedFiles == MarkFiles \cup IdFiles \cup GradeFiles \cup HeaderFiles

InitData ==
  /\ access_token = "tok"
  /\ user_info = "user"
  /\ selected_folder_id = None
  /\ csv_files = <<>>
  /\ \E f \in LoadedFiles :
       /\ file1_df = read_csv(f[1])
       /\ file2_df = read_csv(f[2])
       /\ filter_option = f[3]
  /\ file1_name = NameA /\ file2_name = NameB
  /\ files_loaded = TRUE
  /\ query_code = FALSE
  /\ folder_select = Root /\ file1_select = <<>> /\ file2_select = <<>>
  /\ event = Ev("open")
  /\ requests = {} /\ rendered = {}
  /\ run_end = "done"
  /\ folder_options = <<>>
  /\ df1_orig = NoDf /\ df2_orig = NoDf /\ common_ids = {}
  /\ dist1 = <<>> /\ dist2 = <<>> /\ comparison_df = <<>>
  /\ analysis_error = None
  /\ pc = "loaded"

\* lines 290-519 applied to the two loaded tables
AnalyseLoaded ==
  /\ pc = "loaded"
  /\ LET s == Finish(AnalysisSection(Begin(Current, Ev("rerun"))))
     IN Becomes(s, Ev("rerun"), "analysed")

NextData == AnalyseLoaded

SpecData == InitData /\ [][NextData]_vars

\* ------------------------------------------------------------ properties
Analysed == pc = "analysed" /\ "analysis" \in rendered

\* the rows of a loaded table that survive line 130
DataRows(df) == IF IsHeaderInfoRow(df) THEN Tail(df.rows) ELSE df.rows

\* the trimmed string forms of the first-column cells of a loaded table
IdsOf(df) == {Strip(StrOf(DataRows(df)[r][1])) : r \in 1..Len(DataRows(df))}

\* C1: common_ids is exactly the intersection of the two tables' Student ID
\* values: an identifier is in it iff it is the whitespace-trimmed string
\* form of a first-column cell of file 1 and of one of file 2.
C1_CommonIdsIsIntersection ==
  Analysed =>
    /\ \A c \in common_ids : c.t = "str" /\ c.s \in IdsOf(file1_df) /\ c.s \in IdsOf(file2_df)
    /\ \A x \in IdsOf(file1_df) : x \in IdsOf(file2_df) => StrCell(x) \in common_ids

\* a padded identifier of file 1 is common to both files
C1_Witness ==
  /\ Analysed
  /\ \E r \in 1..Len(DataRows(file1_df)) :
       LET raw == StrOf(DataRows(file1_df)[r][1])
       IN raw # Strip(raw) /\ StrCell(Strip(raw)) \in common_ids

\* the table a distribution is computed from: all students, or the common ones
Shown(df) == IF filter_option THEN FilterCommon(df, common_ids) ELSE df

GradeRows(df, g) == {r \in 1..Len(df.rows) : Col(df, GRADE)[r] = g}

GradedRows(df) == {r \in 1..Len(df.rows) : Col(df, GRADE)[r].t # "nan"}

BucketNames == <<<<"H", "D">>, <<"D", "N">>, <<"C", "R">>, <<"P", "S">>, <<"F", "L">>>>

DistributionOf(dist, df) ==
  /\ Len(dist) = Len(BucketNames)
  /\ \A k \in 1..Len(BucketNames) :
       /\ dist[k].grade = StrCell(BucketNames[k])
       /\ dist[k].count = Cardinality(GradeRows(df, StrCell(BucketNames[k])))
       /\ dist[k].percentage.den > 0
       /\ dist[k].percentage.num * Cardinality(GradedRows(df))
            = dist[k].count * 100 * dist[k].percentage.den
       /\ Cardinality(GradedRows(df)) = 0 =>
            dist[k].count = 0 /\ dist[k].percentage.num = 0

\* C2: for the buckets HD, DN, CR, PS, FL in that order, count is the number
\* of records with that Grade and percentage is count * 100 / (records with
\* a non-missing Grade); with no graded record every count and percentage
\* is 0 and nothing raises.
C2_GradeDistribution ==
  pc = "analysed" =>
    /\ analysis_error = None
    /\ DistributionOf(dist1, Shown(df1_orig))
    /\ DistributionOf(dist2, Shown(df2_orig))

\* file 1 holds a grade of a bucket, a grade of no bucket and a missing one
C2_Witness ==
  /\ Analysed
  /\ \E k \in 1..Len(dist1) :
       /\ dist1[k].count = 1 /\ dist1[k].percentage = [num |-> 50, den |-> 1]
       /\ \A j \in 1..Len(dist1) : j # k => dist1[j].count = 0
  /\ Cardinality(GradedRows(Shown(df1_orig))) = 2
  /\ Len(Shown(df1_orig).rows) = 3

\* the text of column D of data row r of a loaded table
FinalText(df, r) == StrOf(DataRows(df)[r][4])

FirstDigitAt(s, i) == IsDigit(s[i]) /\ \A k \in 1..(i - 1) : ~IsDigit(s[k])

LastDigitAt(s, i, j) ==
  /\ \A k \in i..j : IsDigit(s[k])
  /\ (j = Len(s) \/ ~IsDigit(s[j + 1]))

\* m is the number spelt by the first run of digits of s, or missing
IsFirstNumber(s, m) ==
  IF \A i \in 1..Len(s) : ~IsDigit(s[i]) THEN m.t = "nan"
  ELSE \E i \in 1..Len(s), j \in 1..Len(s) :
         /\ i <= j /\ FirstDigitAt(s, i) /\ LastDigitAt(s, i, j)
         /\ m = FloatCell(DigitsToNum(SubSeq(s, i, j)))

\* m is the number spelt by the digits s starts with, missing when it
\* starts with none
IsNumericPrefix(s, m) ==
  IF s = <<>> \/ ~IsDigit(s[1]) THEN m.t = "nan"
  ELSE \E j \in 1..Len(s) : LastDigitAt(s, 1, j) /\ m = FloatCell(DigitsToNum(SubSeq(s, 1, j)))

TwoCapitalsAt(s, i) == i + 1 <= Len(s) /\ IsUpper(s[i]) /\ IsUpper(s[i + 1])

\* g is the first two capitals in a row of s, with the capital that follows
\* them if there is one, or missing
IsGradeToken(s, g) ==
  IF \A i \in 1..Len(s) : ~TwoCapitalsAt(s, i) THEN g.t = "nan"
  ELSE \E i \in 1..Len(s) :
         /\ TwoCapitalsAt(s, i) /\ \A k \in 1..(i - 1) : ~TwoCapitalsAt(s, k)
         /\ g = StrCell(IF i + 2 <= Len(s) /\ IsUpper(s[i + 2])
                        THEN SubSeq(s, i, i + 2) ELSE SubSeq(s, i, i + 1))

\* C3 as stated: Final_Mark is the numeric prefix of the column-D text (the
\* digits it starts with), Grade its first run of 2 to 3 capitals.
C3_Original_NumericPrefix ==
  Analysed =>
    \A r \in 1..Len(df1_orig.rows) :
      /\ IsNumericPrefix(FinalText(file1_df, r), Col(df1_orig, FINAL_MARK)[r])
      /\ IsGradeToken(FinalText(file1_df, r), Col(df1_orig, GRADE)[r])

\* C3 amended: Final_Mark is the number spelt by the first run of digits
\* anywhere in the column-D text (missing when it has no digit), Grade the
\* first 2 to 3 capitals in a row (missing when there are no two).
C3_FirstDigitRun ==
  Analysed =>
    /\ Len(df1_orig.rows) = Len(DataRows(file1_df))
    /\ \A r \in 1..Len(df1_orig.rows) :
         /\ IsFirstNumber(FinalText(file1_df, r), Col(df1_orig, FINAL_MARK)[r])
         /\ IsGradeToken(FinalText(file1_df, r), Col(df1_orig, GRADE)[r])

\* a cell like "DN 7": the mark follows the grade and is still extracted
C3_Witness ==
  /\ Analysed
  /\ \E r \in 1..Len(df1_orig.rows) :
       /\ FinalText(file1_df, r) # <<>>
       /\ ~IsDigit(FinalText(file1_df, r)[1])
       /\ Col(df1_orig, FINAL_MARK)[r] = FloatCell(7)
       /\ Col(df1_orig, GRADE)[r] = StrCell(<<"D", "N">>)

IsBlankText(s) == \A i \in 1..Len(s) : IsSpace(s[i])

\* t is s without the blanks at its two ends
IsTrimmed(s, t) ==
  /\ t = <<>> \/ (~IsSpace(t[1]) /\ ~IsSpace(t[Len(t)]))
  /\ \E a \in 0..Len(s) :
       /\ a + Len(t) <= Len(s)
       /\ SubSeq(s, a + 1, a + Len(t)) = t
       /\ IsBlankText(SubSeq(s, 1, a))
       /\ IsBlankText(SubSeq(s, a + Len(t) + 1, Len(s)))

HeaderInfoCase(df) ==
  /\ \E i \in 1..Len(df.columns) : df.columns[i] = SID
  /\ Len(df.rows) > 0
  /\ Len(StrOf(df.rows[1][1])) >= 4
  /\ SubSeq(StrOf(df.rows[1][1]), 1, 4) = <<"A", "C", "T", "L">>

\* row r of the processed table is row r + k of the loaded one
SameRow(out, df, r, k) ==
  /\ IsTrimmed(StrOf(df.rows[r + k][1]), StrOf(Col(out, SID)[r]))
  /\ \A c \in 1..Len(df.columns) :
       out.columns[c] # SID => out.rows[r][c] = df.rows[r + k][c]

HeaderStripped(out, df) ==
  LET k == IF HeaderInfoCase(df) THEN 1 ELSE 0
  IN /\ Len(out.rows) = Len(df.rows) - k
     /\ \A r \in 1..Len(out.rows) : SameRow(out, df, r, k)
     /\ \A c \in 1..Len(df.columns) : IsTrimmed(df.columns[c], out.columns[c])

\* C4: the first row is removed exactly when the table has a column named
\* 'Student ID', has a row, and the first cell of the first row starts with
\* 'ACTL'; the other rows are all kept, in order; column names are trimmed.
C4_HeaderRowStripped ==
  Analysed => HeaderStripped(df1_orig, file1_df) /\ HeaderStripped(df2_orig, file2_df)

\* a header-info row was removed and a student row kept
C4_Witness ==
  /\ Analysed
  /\ HeaderInfoCase(file1_df)
  /\ Len(df1_orig.rows) = 1
  /\ Len(file1_df.rows) = 2

RowsWithId(df, id) == {r \in 1..Len(df.rows) : Col(df, SID)[r] = id}

TableRowsWithId(id) == {i \in 1..Len(comparison_df) : comparison_df[i].id = id}

\* C5: every row of the Detailed Comparison table has a common identifier,
\* and an identifier occurring m times in file 1 and n times in file 2 has
\* m * n rows (so every common identifier appears, once when identifiers
\* are unique in each file).
C5_ComparisonIsJoin ==
  (pc = "analysed" /\ "comparison" \in rendered) =>
    /\ \A i \in 1..Len(comparison_df) : comparison_df[i].id \in common_ids
    /\ \A id \in common_ids :
         /\ Cardinality(TableRowsWithId(id)) =
              Cardinality(RowsWithId(df1_orig, id)) * Cardinality(RowsWithId(df2_orig, id))
         /\ Cardinality(TableRowsWithId(id)) >= 1

\* an identifier twice in each file: four rows of the table
C5_Witness ==
  /\ pc = "analysed" /\ "comparison" \in rendered
  /\ \E id \in common_ids :
       /\ Cardinality(RowsWithId(df1_orig, id)) = 2
       /\ Cardinality(RowsWithId(df2_orig, id)) = 2
       /\ Cardinality(TableRowsWithId(id)) = 4

fileVars == <<file1_df, file2_df, file1_name, file2_name, files_loaded>>

\* C6: an exception raised in the analysis section is caught and shown as
\* an error message: the run goes on to its end, and the connection and the
\* loaded files are as they were.
C6_AnalysisErrorCaught ==
  [][/\ analysis_error' # None =>
          /\ "error_message" \in rendered'
          /\ "uncaught_exception" \notin rendered'
          /\ run_end' = "done"
          /\ UNCHANGED <<access_token, user_info>>
          /\ UNCHANGED fileVars
     /\ (pc' = "session" /\ run_end' = "done" /\ files_loaded'
         /\ (Len(file1_df'.columns) < 4 \/ Len(file2_df'.columns) < 4))
          => analysis_error' # None]_vars

\* a loaded table of three columns made the analysis raise
C6_Witness ==
  /\ pc = "session" /\ access_token # None
  /\ analysis_error # None /\ "error_message" \in rendered
  /\ Len(file1_df.columns) = 3

DriveRequests == {"folders", "files", "download"}

MainViews ==
  {"folder_select", "found_csv", "file_select", "load_button", "no_csv_warning",
   "download_failed", "loaded_ok", "analysis", "filter_radio", "comparison",
   "error_message"}

\* C7: a run of a session that holds no access token makes no folder
\* listing, file listing or download request and renders no file selection
\* or analysis, whether or not files were loaded earlier; if it ends without
\* a token it stopped at the 'Please connect to OneDrive' message.
C7_NoTokenNoDriveAccess ==
  [][(pc = "session" /\ access_token = None) =>
       /\ requests' \cap DriveRequests = {}
       /\ rendered' \cap MainViews = {}
       /\ access_token' = None => run_end' = "stop" /\ "please_connect" \in rendered']_vars

\* a run stopped at the message although files were loaded earlier
C7_Witness ==
  /\ pc = "session" /\ access_token = None /\ files_loaded
  /\ run_end = "stop" /\ "please_connect" \in rendered
  /\ event.kind # "disconnect"

\* C8 as stated: after a Load attempt the five fields are all set from the
\* two selected files or all unchanged.
C8_LoadAllOrNothing ==
  [][(pc = "session" /\ event'.kind = "load") =>
       \/ UNCHANGED fileVars
       \/ /\ file1_select' \in SeqRange(FileNames(csv_files'))
          /\ file2_select' \in SeqRange(FileNames(csv_files'))
          /\ ~ReadCsvRaises(DriveBytes(FileIdOf(csv_files', file1_select')))
          /\ ~ReadCsvRaises(DriveBytes(FileIdOf(csv_files', file2_select')))
          /\ file1_df' = read_csv(DriveBytes(FileIdOf(csv_files', file1_select')))
          /\ file2_df' = read_csv(DriveBytes(FileIdOf(csv_files', file2_select')))
          /\ file1_name' = file1_select'
          /\ file2_name' = file2_select'
          /\ files_loaded' = TRUE]_vars

SelectedFolderId ==
  IF folder_select = Root THEN None
  ELSE (CHOOSE it \in SeqRange(DriveChildren(None)) : it.name = folder_select).id

HasCsvSuffix(name) ==
  /\ Len(name) >= 4
  /\ name[Len(name) - 3] = "."
  /\ name[Len(name) - 2] \in {"c", "C"}
  /\ name[Len(name) - 1] \in {"s", "S"}
  /\ name[Len(name)] \in {"v", "V"}

CsvFilesOf(folder_id) ==
  SelectSeq2(DriveChildren(folder_id),
             {it \in SeqRange(DriveChildren(folder_id)) : HasCsvSuffix(it.name)})

\* C9 as stated: at the end of every run of a connected session csv_files is
\* the list of CSV files of the folder selected in the sidebar, and the
\* 'No CSV files found' warning is shown only for a folder without CSV file.
C9_CsvFilesOfSelectedFolder ==
  (pc = "session" /\ access_token # None /\ run_end = "done") =>
    /\ csv_files = CsvFilesOf(SelectedFolderId)
    /\ "no_csv_warning" \in rendered => CsvFilesOf(SelectedFolderId) = <<>>

=============================================================================
